---- MODULE Spec2Model ----
(***************************************************************************)
(* Kashmir vector DB.  The persistent (Pebble) variant: CreateCollection,  *)
(* AddDocument, AddDocuments and Query over an ordered key-value store.    *)
(* The in-memory variant (vectorDB.go): the same operations over a map of  *)
(* collections, each a slice of documents and a slice of vectors.          *)
(*                                                                         *)
(* Strings that take part in key construction, key ordering or letter-case *)
(* folding (collection names, document ids, metadata keys) are sequences   *)
(* of byte values.  Document texts are opaque and are TLA+ strings.        *)
(* Floating point: every embedding of the model has a perfect-square       *)
(* squared magnitude, so math.Sqrt and the product of the two magnitudes   *)
(* are exact and the one rounding of the final division is monotone; the   *)
(* similarity is kept as an exact fraction num/den, or NaN for 0/0.        *)
(* The store handle is taken to be reliable: Get, Set and the iterator     *)
(* return no I/O error.                                                    *)
(***************************************************************************)
EXTENDS Integers, Sequences, FiniteSets, TLC

VARIABLES
    store,    \* Pebble: key (byte sequence) -> [val: the stored JSON document,
              \*   by: the AddDocument call that wrote it (history only)]
    calls,    \* every AddDocument call so far, in order of invocation
    batch,    \* the AddDocuments call: its workers, error channel and result
    query,    \* the Query call: arguments, position and result
    create,   \* the last CreateCollection call: its name and result
    mem       \* the in-memory variant: its collections map and last result

vars == <<store, calls, batch, query, create, mem>>

----------------------------------------------------------------------------
(* Bounds of the model *)

MaxCalls == 3      \* AddDocument calls in one behaviour of Spec
MaxBatch == 3      \* documents in one AddDocuments call
MaxDocs == 2       \* AddDocument calls in one behaviour of SpecQuery, SpecFilter,
                   \* SpecKeys, SpecValues, SpecScan
MaxOps == 3        \* calls in one behaviour of SpecMem
MaxMemBatch == 2   \* documents in one AddDocuments call of SpecMem

----------------------------------------------------------------------------
(* Bytes and strings *)

Colon == 58        \* ":" of collectionName + ":" + docID
Semicolon == 59    \* ";", the upper bound's last byte in CreateCollection
ByteFF == 255      \* '\xff' appended to the prefix as the scan's upper bound

NoText == ""
NoErr == "nil"
ErrExists == "document already exists"
ErrService == "embedding service error"           \* what generateEmbedding returns
ErrEmbedding == "error generating embedding: embedding service error"
ErrCollExists == "collection already exists"
ErrCorrupt == "unexpected end of JSON input"      \* what json.Unmarshal returns

\* strings.ToLower on ASCII bytes: 'A'..'Z' become 'a'..'z'
ToLowerIdentity(s) == s
ToLower(s) == [i \in DOMAIN s |-> IF s[i] \in 65..90 THEN s[i] + 32 ELSE s[i]]

\* bytes.Compare(a, b) < 0: the key order of Pebble's default comparer
RECURSIVE LexLess(_, _)
LexLess(a, b) ==
    IF b = <<>> THEN FALSE
    ELSE IF a = <<>> THEN TRUE
    ELSE IF Head(a) # Head(b) THEN Head(a) < Head(b)
    ELSE LexLess(Tail(a), Tail(b))

\* docKey := []byte(collectionName + ":" + docID)
DocKey(c, id) == c \o <<Colon>> \o id

----------------------------------------------------------------------------
(* Documents and their JSON form *)

\* A metadata value is an interface{}: a dynamic type and a payload.
GoVal(t, v) == [t |-> t, v |-> v]
GoNil == GoVal("nil", <<>>)

\* map lookup m[k] on a map[string]interface{}: nil when the key is absent
Lookup(m, k) == IF k \in DOMAIN m THEN m[k] ELSE GoNil

\* the zero-value Document
ZeroDoc == [ID |-> <<>>, Text |-> NoText, Embedding |-> <<>>, Metadata |-> <<>>]

\* Document{ID: docID, Text: text, Embedding: embedding, Metadata: metadata}
MakeDoc(id, text, embedding, metadata) ==
    [ID |-> id, Text |-> text, Embedding |-> embedding, Metadata |-> metadata]

\* encoding/json on one interface{} value: Go ints and float64s both become a
\* JSON number, strings, booleans and nil keep their kind
JsonEncVal(x) ==
    IF x.t \in {"int", "float64"} THEN GoVal("number", x.v) ELSE x

\* json.Unmarshal into interface{}: every JSON number becomes a float64
JsonDecVal(j) ==
    IF j.t = "number" THEN GoVal("float64", j.v) ELSE j

\* encoding/json on a Go string: a byte that is no valid UTF-8 (0xff) is
\* written as U+FFFD (EF BF BD)
RECURSIVE JsonEncStr(_)
JsonEncStr(s) ==
    IF s = <<>> THEN <<>>
    ELSE (IF Head(s) = ByteFF THEN <<239, 191, 189>> ELSE <<Head(s)>>)
         \o JsonEncStr(Tail(s))

\* json.Marshal(doc): the text of one JSON object
Marshal(doc) ==
    [json |-> "object",
     ID |-> JsonEncStr(doc.ID),
     Text |-> doc.Text,
     Embedding |-> doc.Embedding,
     Metadata |-> [k \in DOMAIN doc.Metadata |-> JsonEncVal(doc.Metadata[k])]]

\* json.Unmarshal(iter.Value(), &doc) returns an error: the stored bytes are
\* not the text of a JSON object
UnmarshalFailsNever(j) == FALSE
UnmarshalFails(j) == j.json # "object"

\* json.Unmarshal(iter.Value(), &doc)
Unmarshal(j) ==
    [ID |-> j.ID,
     Text |-> j.Text,
     Embedding |-> j.Embedding,
     Metadata |-> [k \in DOMAIN j.Metadata |-> JsonDecVal(j.Metadata[k])]]

----------------------------------------------------------------------------
(* AddDocument *)

Active(n) == calls[n].pc # "done"
Succeeded(n) == calls[n].pc = "done" /\ calls[n].err = NoErr
CallKey(n) == DocKey(calls[n].coll, calls[n].id)

\* db.db.Get(docKey) returned err == nil
FoundNever(k) == FALSE
Found(k) == k \in DOMAIN store

\* the call record of one invocation AddDocument(c, id, text, metadata).
\* History only: after, the calls on the same key that had already returned
\* success when it was invoked
NewCall(c, id, text, metadata, inBatch) ==
    [coll |-> c, id |-> id, text |-> text, meta |-> metadata,
     pc |-> "get", emb |-> <<>>, err |-> NoErr, batch |-> inBatch,
     after |-> {m \in DOMAIN calls : Succeeded(m) /\ CallKey(m) = DocKey(c, id)}]

\* errChan <- err, in the goroutine of AddDocuments: the send proceeds when
\* the channel's buffer has room (nothing receives before wg.Wait returns)
Deliver(n, e) ==
    IF calls[n].batch
    THEN /\ Len(batch.errChan) < batch.cap
         /\ batch' = [batch EXCEPT !.errChan = Append(@, e)]
    ELSE UNCHANGED batch

\* a standalone call of AddDocument
AddDocumentCall(c, id, text, metadata, max) ==
    /\ Len(calls) < max
    /\ calls' = Append(calls, NewCall(c, id, text, metadata, FALSE))
    /\ UNCHANGED <<store, batch, query, create, mem>>

\* db.db.Get(docKey): found -> "document already exists"
AddDocumentGet(n) ==
    /\ calls[n].pc = "get"
    /\ IF Found(CallKey(n))
       THEN /\ calls' = [calls EXCEPT ![n].pc = "done", ![n].err = ErrExists]
            /\ Deliver(n, ErrExists)
       ELSE /\ calls' = [calls EXCEPT ![n].pc = "embed"]
            /\ UNCHANGED batch
    /\ UNCHANGED <<store, query, create, mem>>

\* generateEmbedding(text) returned an embedding
AddDocumentEmbedOk(n, v) ==
    /\ calls[n].pc = "embed"
    /\ calls' = [calls EXCEPT ![n].pc = "set", ![n].emb = v]
    /\ UNCHANGED <<store, batch, query, create, mem>>

\* the store after the failed embedding call: no write
StoreAfterEmbedFailPartial(n) ==
    [k \in DOMAIN store \cup {CallKey(n)} |->
        IF k = CallKey(n)
        THEN [val |-> Marshal(MakeDoc(calls[n].id, calls[n].text, <<>>, calls[n].meta)),
              by |-> n]
        ELSE store[k]]
StoreAfterEmbedFail(n) == store

\* generateEmbedding(text) returned an error
AddDocumentEmbedFail(n) ==
    /\ calls[n].pc = "embed"
    /\ calls' = [calls EXCEPT ![n].pc = "done", ![n].err = ErrEmbedding]
    /\ store' = StoreAfterEmbedFail(n)
    /\ Deliver(n, ErrEmbedding)
    /\ UNCHANGED <<query, create, mem>>

\* the document a call writes
CallDoc(n) == MakeDoc(calls[n].id, calls[n].text, calls[n].emb, calls[n].meta)

\* db.db.Set(docKey, docBytes, pebble.Sync): the key now holds these bytes
SetKeyMerge(s, k, bytes, n) ==
    [x \in DOMAIN s \cup {k} |->
        IF x # k THEN s[x]
        ELSE IF k \in DOMAIN s
             THEN [val |-> [bytes EXCEPT !.Text = s[k].val.Text], by |-> n]
             ELSE [val |-> bytes, by |-> n]]
SetKey(s, k, bytes, n) ==
    [x \in DOMAIN s \cup {k} |-> IF x = k THEN [val |-> bytes, by |-> n] ELSE s[x]]

\* json.Marshal(doc), db.db.Set(...), return nil
AddDocumentSet(n) ==
    /\ calls[n].pc = "set"
    /\ store' = SetKey(store, CallKey(n), Marshal(CallDoc(n)), n)
    /\ calls' = [calls EXCEPT ![n].pc = "done"]
    /\ UNCHANGED <<batch, query, create, mem>>

----------------------------------------------------------------------------
(* AddDocuments *)

BatchWorkers == batch.first .. (batch.first + batch.size - 1)

\* one goroutine per document, each calling AddDocument
RECURSIVE Spawn(_, _, _)
Spawn(cs, c, docs) ==
    IF docs = <<>> THEN cs
    ELSE Spawn(Append(cs, NewCall(c, Head(docs).ID, Head(docs).Text,
                                  Head(docs).Metadata, TRUE)),
               c, Tail(docs))

\* errChan := make(chan error, len(documents))
ChanCapUnbuffered(docs) == 0
ChanCap(docs) == Len(docs)

\* AddDocuments(c, docs) up to wg.Wait()
AddDocumentsCall(c, docs, max) ==
    /\ batch.pc = "idle"
    /\ Len(calls) + Len(docs) <= max
    /\ calls' = Spawn(calls, c, docs)
    /\ batch' = [pc |-> "wait", first |-> Len(calls) + 1, size |-> Len(docs),
                 cap |-> ChanCap(docs), errChan |-> <<>>, err |-> NoErr]
    /\ UNCHANGED <<store, query, create, mem>>

\* the error AddDocuments returns: the first one received from errChan
BatchErrorDropped(ch) == NoErr
BatchError(ch) == IF ch = <<>> THEN NoErr ELSE Head(ch)

\* wg.Wait() returns, close(errChan), range over errChan
AddDocumentsReturn ==
    /\ batch.pc = "wait"
    /\ \A n \in BatchWorkers : ~Active(n)
    /\ batch' = [batch EXCEPT !.pc = "done", !.err = BatchError(batch.errChan)]
    /\ UNCHANGED <<store, calls, query, create, mem>>

----------------------------------------------------------------------------
(* cosineSimilarity *)

RECURSIVE Dot(_, _)
Dot(a, b) == IF a = <<>> THEN 0 ELSE Head(a) * Head(b) + Dot(Tail(a), Tail(b))

\* math.Sqrt, exact on the perfect squares the model's embeddings produce
Sqrt(n) == CHOOSE r \in 0..n : r * r = n

NaN == [nan |-> TRUE, num |-> 0, den |-> 1]
Frac(n, d) == [nan |-> FALSE, num |-> n, den |-> d]

\* dotProduct / (math.Sqrt(squaredMagnitudeA) * math.Sqrt(squaredMagnitudeB));
\* a zero magnitude gives 0/0, which is NaN
cosineSimilarity(a, b) ==
    LET den == Sqrt(Dot(a, a)) * Sqrt(Dot(b, b))
    IN  IF den = 0 THEN NaN ELSE Frac(Dot(a, b), den)

\* float64 x > y: false when either side is NaN
GreaterOrEqual(x, y) == ~x.nan /\ ~y.nan /\ x.num * y.den >= y.num * x.den
Greater(x, y) == ~x.nan /\ ~y.nan /\ x.num * y.den > y.num * x.den

\* maxSimilarity := -1.0
InitialMax == Frac(-1, 1)

----------------------------------------------------------------------------
(* Query *)

\* the loop that lower-cases the keys of the caller's metadataFilter in place
\* while ranging over it: a key that is already lower-case keeps its value
\* unless an upper-case variant of it is present too; then the variant visited
\* last gives the value
Normalise(f) ==
    LET lows == {ToLower(k) : k \in DOMAIN f}
        variants(l) == {k \in DOMAIN f : ToLower(k) = l /\ k # l}
    IN  {g \in [lows -> {f[k] : k \in DOMAIN f}] :
            \A l \in lows :
                IF variants(l) = {} THEN g[l] = f[l]
                ELSE \E u \in variants(l) : g[l] = f[u]}

\* the per-document filter loop: doc.Metadata[lowercaseKey] != value
MatchesFilterAlways(metadata, filter) == TRUE
MatchesFilter(metadata, filter) ==
    \A key \in DOMAIN filter : Lookup(metadata, ToLower(key)) = filter[key]

\* LowerBound: prefix, UpperBound: append(prefix, '\xff')
InScan(k, c) ==
    LET prefix == c \o <<Colon>>
    IN  ~LexLess(k, prefix) /\ LexLess(k, prefix \o <<ByteFF>>)

\* iter.First() ... iter.Next(): the keys of the range in byte order
RECURSIVE SortKeys(_)
SortKeys(ks) ==
    IF ks = {} THEN <<>>
    ELSE LET least == CHOOSE k \in ks : \A o \in ks \ {k} : LexLess(k, o)
         IN  <<least>> \o SortKeys(ks \ {least})

ScanKeys(s, c) == SortKeys({k \in DOMAIN s : InScan(k, c)})

\* one pass of the loop body over the documents at keys[i..]; read: the
\* number of records read so far.  A record that does not deserialize ends
\* the loop: return matchingDoc, err
RECURSIVE ScanLoop(_, _, _, _, _, _)
ScanLoop(s, keys, i, queryVec, filter, acc) ==
    IF i > Len(keys) THEN acc
    ELSE IF UnmarshalFails(s[keys[i]].val)
    THEN [acc EXCEPT !.err = ErrCorrupt, !.read = i]
    ELSE LET doc == Unmarshal(s[keys[i]].val)
             eligible == /\ MatchesFilter(doc.Metadata, filter)
                         /\ Len(queryVec) > 0
                         /\ Len(queryVec) = Len(doc.Embedding)
             similarity == cosineSimilarity(queryVec, doc.Embedding)
         IN  IF eligible /\ Greater(similarity, acc.max)
             THEN ScanLoop(s, keys, i + 1, queryVec, filter,
                           [acc EXCEPT !.doc = doc, !.max = similarity, !.read = i])
             ELSE ScanLoop(s, keys, i + 1, queryVec, filter, [acc EXCEPT !.read = i])

\* the scan of Query: the document and error it returns, the records it read
ScanResult(s, c, queryVec, filter) ==
    ScanLoop(s, ScanKeys(s, c), 1, queryVec, filter,
             [doc |-> ZeroDoc, max |-> InitialMax, err |-> NoErr, read |-> 0])

\* the document Query returns after scanning
BestMatch(s, c, queryVec, filter) == ScanResult(s, c, queryVec, filter).doc

\* the store after a Query: Query calls no Set and no Delete
StoreAfterQueryConsumed(s, c) == [k \in {x \in DOMAIN s : ~InScan(x, c)} |-> s[k]]
StoreAfterQuery(s, c) == s

\* History only.  prev: the result of the Query call before this one, when
\* this one repeats it with the same arguments, and the store that call
\* scanned; snap: the store this call scanned, kept when track is set
NoPrev ==
    [set |-> FALSE, vec |-> <<>>, doc |-> ZeroDoc, err |-> NoErr, scanned |-> <<>>,
     store |-> <<>>]

IdleQuery ==
    [pc |-> "idle", coll |-> <<>>, given |-> <<>>, filter |-> <<>>, vec |-> <<>>,
     doc |-> ZeroDoc, err |-> NoErr, scanned |-> <<>>, after |-> {},
     track |-> FALSE, snap |-> <<>>, prev |-> NoPrev]

\* Query(c, queryText, metadataFilter) is called; given: the caller's map as
\* passed, filter: the caller's map as it is now.  History only, kept when
\* track is set: after, the AddDocument calls on the collection that had
\* already returned success
QueryCall(c, f) ==
    /\ query.pc \in {"idle", "done"}
    /\ query' = [IdleQuery EXCEPT
                    !.pc = "embed", !.coll = c, !.given = f, !.filter = f,
                    !.track = query.track,
                    !.after = IF query.track
                              THEN {m \in DOMAIN calls : Succeeded(m) /\ calls[m].coll = c}
                              ELSE {}]
    /\ UNCHANGED <<store, calls, batch, create, mem>>

\* generateEmbedding(queryText) returned an error: return matchingDoc, err
ScannedOnEmbedFailAll(c) == ScanKeys(store, c)
ScannedOnEmbedFail(c) == <<>>

QueryEmbedFail ==
    /\ query.pc = "embed"
    /\ query' = [query EXCEPT !.pc = "done", !.err = ErrService,
                              !.scanned = ScannedOnEmbedFail(query.coll)]
    /\ UNCHANGED <<store, calls, batch, create, mem>>

\* generateEmbedding(queryText) returned queryVec
QueryEmbedOk(v) ==
    /\ query.pc = "embed"
    /\ query' = [query EXCEPT !.pc = "scan", !.vec = v]
    /\ UNCHANGED <<store, calls, batch, create, mem>>

\* NewIter, the filter normalisation, the scan loop, return matchingDoc, err;
\* the iterator reads the store as it is when it is created
QueryScan ==
    /\ query.pc = "scan"
    /\ \E nf \in Normalise(query.filter) :
          LET r == ScanResult(store, query.coll, query.vec, nf)
          IN  query' = [query EXCEPT
                          !.pc = "done", !.filter = nf, !.doc = r.doc, !.err = r.err,
                          !.scanned = SubSeq(ScanKeys(store, query.coll), 1, r.read),
                          !.snap = IF query.track THEN store ELSE <<>>]
    /\ store' = StoreAfterQuery(store, query.coll)
    /\ UNCHANGED <<calls, batch, create, mem>>

\* Query is called again with the arguments of the call that has just
\* returned: the same collection, the same query text and the caller's same
\* filter map, as that call left it
QueryAgain ==
    /\ query.pc = "done" /\ query.err = NoErr
    /\ query' = [IdleQuery EXCEPT
                    !.pc = "embed", !.coll = query.coll,
                    !.given = query.filter, !.filter = query.filter,
                    !.track = query.track,
                    !.after = IF query.track
                              THEN {m \in DOMAIN calls :
                                      Succeeded(m) /\ calls[m].coll = query.coll}
                              ELSE {},
                    !.prev = [set |-> TRUE, vec |-> query.vec, doc |-> query.doc,
                              err |-> query.err, scanned |-> query.scanned,
                              store |-> query.snap]]
    /\ UNCHANGED <<store, calls, batch, create, mem>>

\* the environment damages a stored value: its bytes are cut short
Corrupt(k) ==
    /\ k \in DOMAIN store
    /\ store[k].val.json = "object"
    /\ store' = [store EXCEPT ![k].val.json = "truncated"]
    /\ UNCHANGED <<calls, batch, query, create, mem>>

----------------------------------------------------------------------------
(* CreateCollection *)

NoCreate == [name |-> <<>>, err |-> NoErr]

\* strings.TrimRight(name, ":")
RECURSIVE TrimRight(_)
TrimRight(name) ==
    IF name # <<>> /\ name[Len(name)] = Colon
    THEN TrimRight(SubSeq(name, 1, Len(name) - 1))
    ELSE name

\* LowerBound: name + ":", UpperBound: strings.TrimRight(name, ":") + ";"
InCreateRange(k, name) ==
    /\ ~LexLess(k, name \o <<Colon>>)
    /\ LexLess(k, TrimRight(name) \o <<Semicolon>>)

\* iter.First() finds a key in the range
CollectionFound(name) == \E k \in DOMAIN store : InCreateRange(k, name)

\* CreateCollection(name): one range check, no write
CreateCollection(name) ==
    /\ create' = [name |-> name,
                  err |-> IF CollectionFound(name) THEN ErrCollExists ELSE NoErr]
    /\ UNCHANGED <<store, calls, batch, query, mem>>

----------------------------------------------------------------------------
(* The in-memory variant *)

\* vectorDB.go keeps every collection in a map, with the documents and the
\* vectors of a collection in two slices that are paired by index.  Its calls
\* are modelled one at a time (the map and the slices have no lock).
ErrNotFound == "collection not found"
ErrEmpty == "collection is empty"

\* NewVectorDB(); ops: the number of calls so far; op, coll, err, id, panic:
\* the last call, its collection argument and its outcome
NoMem ==
    [colls |-> <<>>, ops |-> 0, op |-> "none", coll |-> <<>>, err |-> NoErr,
     id |-> <<>>, panic |-> FALSE]

\* NewCollection(name)
NewCollection == [documents |-> <<>>, vectors |-> <<>>]

\* the embedding the service computes from a text
EmbeddingOf(text) == IF text = "t1" THEN <<1, 0>> ELSE <<0, 1>>

\* the end of a call: its return values
MemReturn(op, c, colls, err, id, panic) ==
    /\ mem' = [colls |-> colls, ops |-> mem.ops + 1, op |-> op, coll |-> c,
               err |-> err, id |-> id, panic |-> panic]
    /\ UNCHANGED <<store, calls, batch, query, create>>

\* CreateCollection(name)
MemCreateCollection(name, max) ==
    /\ mem.ops < max
    /\ IF name \in DOMAIN mem.colls
       THEN MemReturn("CreateCollection", name, mem.colls, ErrCollExists, <<>>, FALSE)
       ELSE MemReturn("CreateCollection", name, [c \in DOMAIN mem.colls \cup {name} |->
                          IF c = name THEN NewCollection ELSE mem.colls[c]],
                      NoErr, <<>>, FALSE)

\* the collection after AddDocument found its embedding call failing: the
\* document is already appended
AfterEmbedFail(coll, doc) == [coll EXCEPT !.documents = Append(@, doc)]

\* AddDocument(c, id, text) and AddDocumentWithMetadata(c, id, text, metadata):
\* append the document, call generateEmbedding, append the vector
MemAddDocument(c, doc, ok, max) ==
    /\ mem.ops < max
    /\ IF c \notin DOMAIN mem.colls
       THEN MemReturn("AddDocument", c, mem.colls, ErrNotFound, <<>>, FALSE)
       ELSE IF ~ok
       THEN MemReturn("AddDocument", c, [mem.colls EXCEPT ![c] = AfterEmbedFail(@, doc)],
                      ErrService, <<>>, FALSE)
       ELSE MemReturn("AddDocument", c, [mem.colls EXCEPT
                          ![c].documents = Append(@, doc),
                          ![c].vectors = Append(@, EmbeddingOf(doc.Text))],
                      NoErr, <<>>, FALSE)

\* the orders in which the collect loop can receive results: sequences of
\* n different elements of the set from
Arrivals(from, n) ==
    {a \in [1..n -> from] : \A i, j \in 1..n : (i # j) => a[i] # a[j]}

\* AddDocuments(c, docs): one goroutine per document computes its embedding;
\* the collect loop appends each received embedding to vectors, returns at
\* the first received error, and appends the documents after the loop.
\* oks: the documents whose embedding call succeeds; got: the results the
\* loop received, in order, before it returned
MemAddDocuments(c, docs, oks, got, max) ==
    /\ mem.ops < max
    /\ IF c \notin DOMAIN mem.colls
       THEN MemReturn("AddDocuments", c, mem.colls, ErrNotFound, <<>>, FALSE)
       ELSE LET vecs == [i \in DOMAIN got |-> EmbeddingOf(docs[got[i]].Text)]
            IN  IF oks = DOMAIN docs
                THEN /\ Len(got) = Len(docs)
                     /\ MemReturn("AddDocuments", c, [mem.colls EXCEPT
                                      ![c].vectors = @ \o vecs,
                                      ![c].documents = @ \o docs],
                                   NoErr, <<>>, FALSE)
                ELSE MemReturn("AddDocuments", c, [mem.colls EXCEPT ![c].vectors = @ \o vecs],
                               ErrService, <<>>, FALSE)

\* findNearestNeighbor(queryVec, vectors, documents): the id of the document
\* paired with the nearest vector; reading documents[i] beyond the slice's
\* length panics
RECURSIVE NearestLoop(_, _, _, _, _)
NearestLoop(queryVec, vectors, documents, i, acc) ==
    IF i > Len(vectors) \/ acc.panic THEN acc
    ELSE IF Greater(cosineSimilarity(queryVec, vectors[i]), acc.max)
    THEN IF i > Len(documents)
         THEN [acc EXCEPT !.panic = TRUE]
         ELSE NearestLoop(queryVec, vectors, documents, i + 1,
                          [acc EXCEPT !.max = cosineSimilarity(queryVec, vectors[i]),
                                      !.id = documents[i].ID])
    ELSE NearestLoop(queryVec, vectors, documents, i + 1, acc)

\* Query(c, queryText); the error of generateEmbedding is overwritten, and
\* its nil result is queryVec
MemQuery(c, queryVec, max) ==
    /\ mem.ops < max
    /\ IF c \notin DOMAIN mem.colls
       THEN MemReturn("Query", c, mem.colls, ErrNotFound, <<>>, FALSE)
       ELSE IF Len(mem.colls[c].vectors) = 0
       THEN MemReturn("Query", c, mem.colls, ErrEmpty, <<>>, FALSE)
       ELSE LET r == NearestLoop(queryVec, mem.colls[c].vectors,
                                 mem.colls[c].documents, 1,
                                 [max |-> InitialMax, id |-> <<>>, panic |-> FALSE])
            IN  MemReturn("Query", c, mem.colls, NoErr, r.id, r.panic)

----------------------------------------------------------------------------
(* Inputs of the model *)

CollA == <<97>>                 \* "a"
CollB == <<98>>                 \* "b"
IdA == <<97>>                   \* "a"
IdB == <<98>>                   \* "b"
KeySource == <<115>>            \* "s"
KeySOURCE == <<83>>             \* "S"
StrX == GoVal("string", <<120>>)   \* "x"
StrY == GoVal("string", <<121>>)   \* "y"
StrUpperX == GoVal("string", <<88>>)  \* "X"

\* the metadata maps {}, {k: v}
NoMeta == <<>>
Meta(k, v) == [x \in {k} |-> v]

\* all maps from a subset of keys to vals
Maps(keys, vals) == UNION {[d -> vals] : d \in SUBSET keys}

\* an input document: Document{ID: id, Text: text, Metadata: metadata}
Input(id, text, metadata) == [ID |-> id, Text |-> text, Metadata |-> metadata]

\* all sequences of input documents up to MaxBatch long
Batches(docs) == UNION {[1..n -> docs] : n \in 0..MaxBatch}

\* ingestion: two documents with the same id that differ in text and
\* metadata, and one with another id; the embedding service answers with one
\* vector or fails
IngestDomain ==
    [max |-> MaxCalls,
     colls |-> {CollA},
     docs |-> {Input(IdA, "t1", NoMeta), Input(IdA, "t2", Meta(KeySource, StrX)),
               Input(IdB, "t1", NoMeta)},
     vecs |-> {<<1, 0>>}]

BatchDomain == [IngestDomain EXCEPT !.max = MaxBatch]

\* best match: documents in two collections, queries on one of them;
\* embeddings that are equal, orthogonal, all-zero or of another length
QueryDomain ==
    [max |-> MaxDocs,
     colls |-> {CollA, CollB},
     docs |-> {Input(IdA, "t1", NoMeta), Input(IdB, "t2", Meta(KeySource, StrX))},
     vecs |-> {<<1, 0>>, <<0, 1>>, <<0, 0>>, <<1>>},
     qcolls |-> {CollA},
     qvecs |-> {<<1, 0>>, <<>>},
     filters |-> {NoMeta, Meta(KeySource, StrX)}]

\* keys: a collection name that ends in ":", ids that begin with ":" or with
\* the byte 0xff
CollAColon == <<97, 58>>        \* "a:"
IdColonA == <<58, 97>>          \* ":a"
IdFF == <<255>>                 \* "\xff"

KeysDomain ==
    [max |-> MaxDocs,
     colls |-> {CollA, CollAColon},
     docs |-> {Input(IdA, "t1", NoMeta), Input(IdColonA, "t1", NoMeta),
               Input(IdFF, "t1", NoMeta)},
     vecs |-> {<<1, 0>>},
     qcolls |-> {CollA, CollAColon},
     qvecs |-> {<<1, 0>>},
     filters |-> {NoMeta},
     names |-> {CollA, CollAColon}]

\* values: metadata numbers written as a Go int and as a float64, and
\* embeddings that point the same way as the query embedding or the opposite way
KeyN == <<110>>                      \* "n"
Int3 == GoVal("int", <<51>>)         \* 3
Float3 == GoVal("float64", <<51>>)   \* 3.0

ValuesDomain ==
    [max |-> MaxDocs,
     colls |-> {CollA},
     docs |-> {Input(IdA, "t1", Meta(KeyN, Int3)), Input(IdA, "t1", Meta(KeyN, StrX)),
               Input(IdB, "t2", Meta(KeyN, Float3))},
     vecs |-> {<<1, 0>>, <<-1, 0>>},
     qcolls |-> {CollA},
     qvecs |-> {<<1, 0>>},
     filters |-> {NoMeta, Meta(KeyN, Int3), Meta(KeyN, Float3), Meta(KeyN, StrX)}]

\* scans: two documents whose metadata differ, a filter whose two keys
\* become one key when lower-cased, two query embeddings
KeyLower == <<97, 98>>          \* "ab"
KeyUpperA == <<65, 98>>         \* "Ab"
KeyUpperB == <<97, 66>>         \* "aB"

ScanDomain ==
    [max |-> MaxDocs,
     colls |-> {CollA},
     docs |-> {Input(IdA, "t1", Meta(KeyLower, StrX)),
               Input(IdB, "t2", Meta(KeyLower, StrY))},
     vecs |-> {<<1, 0>>},
     qcolls |-> {CollA},
     qvecs |-> {<<1, 0>>, <<0, 1>>},
     filters |-> {NoMeta, [k \in {KeyUpperA, KeyUpperB} |->
                              IF k = KeyUpperA THEN StrX ELSE StrY]}]

\* the in-memory variant: one collection name, two documents with different
\* texts, batches of them
MemDomain ==
    [max |-> MaxOps,
     colls |-> {CollA},
     docs |-> {Input(IdA, "t1", NoMeta), Input(IdB, "t2", Meta(KeySource, StrX))},
     batches |-> UNION {[1..n -> {Input(IdA, "t1", NoMeta),
                                  Input(IdB, "t2", Meta(KeySource, StrX))}] :
                           n \in 0..MaxMemBatch},
     qvecs |-> {<<1, 0>>, <<0, 1>>, <<>>}]

----------------------------------------------------------------------------
(* Specifications *)

Init ==
    /\ store = <<>>
    /\ calls = <<>>
    /\ batch = [pc |-> "idle", first |-> 1, size |-> 0, cap |-> 0,
                errChan |-> <<>>, err |-> NoErr]
    /\ query = IdleQuery
    /\ create = NoCreate
    /\ mem = NoMem

NextCall(D) ==
    \E c \in D.colls, d \in D.docs :
        AddDocumentCall(c, d.ID, d.Text, d.Metadata, D.max)

NextAdd(D) ==
    \/ \E n \in DOMAIN calls : AddDocumentGet(n)
    \/ \E n \in DOMAIN calls, v \in D.vecs : AddDocumentEmbedOk(n, v)
    \/ \E n \in DOMAIN calls : AddDocumentEmbedFail(n)
    \/ \E n \in DOMAIN calls : AddDocumentSet(n)

NextBatch(D) ==
    \/ \E c \in D.colls, docs \in Batches(D.docs) :
          AddDocumentsCall(c, docs, D.max)
    \/ AddDocumentsReturn

NextQuery(D) ==
    \/ \E c \in D.qcolls, f \in D.filters : QueryCall(c, f)
    \/ QueryEmbedFail
    \/ \E v \in D.qvecs : QueryEmbedOk(v)
    \/ QueryScan

NextRepeat(D) ==
    \/ QueryAgain
    \/ \E k \in DOMAIN store : Corrupt(k)

NextMem(D) ==
    \/ \E name \in D.colls : MemCreateCollection(name, D.max)
    \/ \E c \in D.colls, d \in D.docs, ok \in BOOLEAN : MemAddDocument(c, d, ok, D.max)
    \/ \E c \in D.colls, docs \in D.batches :
          \E oks \in SUBSET DOMAIN docs :
              \E n \in 0..Cardinality(oks) :
                  \E got \in Arrivals(oks, n) : MemAddDocuments(c, docs, oks, got, D.max)
    \/ \E c \in D.colls, v \in D.qvecs : MemQuery(c, v, D.max)

NextCreate(D) ==
    \E name \in D.names : CreateCollection(name)

\* concurrent calls of AddDocument
Spec == Init /\ [][NextCall(IngestDomain) \/ NextAdd(IngestDomain)]_vars

\* metadata matching: keys in both letter cases, values that differ in case,
\* nil as a filter value; every embedding the same
FilterDomain ==
    [max |-> MaxDocs,
     colls |-> {CollA},
     docs |-> {Input(IdA, "t1", NoMeta), Input(IdA, "t1", Meta(KeySource, StrX)),
               Input(IdB, "t2", Meta(KeySOURCE, StrX)),
               Input(IdB, "t2", Meta(KeySource, StrUpperX))},
     vecs |-> {<<1, 0>>},
     qcolls |-> {CollA},
     qvecs |-> {<<1, 0>>},
     filters |-> Maps({KeySource, KeySOURCE}, {StrX, GoNil})]

\* Query beside concurrent calls of AddDocument
SpecQuery ==
    Init /\ [][NextCall(QueryDomain) \/ NextAdd(QueryDomain) \/ NextQuery(QueryDomain)]_vars

SpecFilter ==
    Init /\ [][NextCall(FilterDomain) \/ NextAdd(FilterDomain) \/ NextQuery(FilterDomain)]_vars

\* one AddDocuments call and the AddDocument calls of its goroutines
SpecBatch == Init /\ [][NextBatch(BatchDomain) \/ NextAdd(BatchDomain)]_vars

\* SpecBatch with every goroutine that can take a step eventually taking one
\* (the Go scheduler) and every embedding call and store operation returning
SpecBatchLive ==
    /\ SpecBatch
    /\ WF_vars(NextAdd(BatchDomain))
    /\ WF_vars(AddDocumentsReturn)

\* Query beside AddDocument calls, on numeric metadata and opposite embeddings
SpecValues ==
    Init /\ [][NextCall(ValuesDomain) \/ NextAdd(ValuesDomain) \/ NextQuery(ValuesDomain)]_vars

\* Init with the history of the Query calls kept
InitHistory ==
    /\ store = <<>>
    /\ calls = <<>>
    /\ batch = [pc |-> "idle", first |-> 1, size |-> 0, cap |-> 0,
                errChan |-> <<>>, err |-> NoErr]
    /\ query = [IdleQuery EXCEPT !.track = TRUE]
    /\ create = NoCreate
    /\ mem = NoMem

\* repeated Query calls beside AddDocument calls, on a store whose values
\* can be damaged
SpecScan ==
    InitHistory /\ [][NextCall(ScanDomain) \/ NextAdd(ScanDomain) \/ NextQuery(ScanDomain)
                      \/ NextRepeat(ScanDomain)]_vars

\* the in-memory variant: calls of CreateCollection, AddDocument,
\* AddDocumentWithMetadata, AddDocuments and Query, one after another
SpecMem == Init /\ [][NextMem(MemDomain)]_vars

\* AddDocument, Query and CreateCollection on names and ids that hold ":" or 0xff
SpecKeys ==
    InitHistory /\ [][NextCall(KeysDomain) \/ NextAdd(KeysDomain) \/ NextQuery(KeysDomain)
                  \/ NextCreate(KeysDomain)]_vars

----------------------------------------------------------------------------
(* Claims about ingestion: C1 to C3 under Spec, C4 and C5 under SpecBatch *)

SameKey(m, n) == CallKey(m) = CallKey(n)
SameDoc(m, n) == calls[m].coll = calls[n].coll /\ calls[m].id = calls[n].id
Returned(n) == calls[n].pc = "done"
Holds(k, n) == k \in DOMAIN store /\ store[k].val = Marshal(CallDoc(n))

\* C1: once AddDocument(c, id, ...) has returned success, every call of
\* AddDocument(c, id, ...) invoked after that return fails with "document
\* already exists", whatever its text and metadata; and when the calls on the
\* key are sequential (every other call on it was invoked after the first one
\* returned) the key holds exactly the record the first call wrote.
C1_SequentialUniqueness ==
    \A m \in DOMAIN calls :
        Succeeded(m) =>
            /\ \A n \in DOMAIN calls :
                  (m \in calls[n].after /\ SameDoc(m, n) /\ Returned(n))
                      => calls[n].err = ErrExists
            /\ (\A n \in DOMAIN calls \ {m} : SameKey(m, n) => m \in calls[n].after)
                  => Holds(CallKey(m), m)

\* a later call with the same id and another text and metadata has failed
\* as a duplicate, and the first call's record is in place
C1_Witness ==
    \E m, n \in DOMAIN calls :
        /\ Succeeded(m) /\ m \in calls[n].after /\ SameDoc(m, n)
        /\ calls[n].text # calls[m].text /\ calls[n].meta # calls[m].meta
        /\ calls[n].err = ErrExists
        /\ Holds(CallKey(m), m)

\* C2 (state part): every stored record is, in all four fields, the document
\* of one single AddDocument call, one that returned success or is returning.
C2_WholeRecords ==
    \A k \in DOMAIN store :
        LET n == store[k].by
        IN  /\ n \in DOMAIN calls
            /\ CallKey(n) = k
            /\ calls[n].err = NoErr
            /\ calls[n].pc = "done"
            /\ store[k].val = Marshal(CallDoc(n))

\* C2 (step part): the step in which a call's embedding call fails makes the
\* call return an error and leaves the store as it was; only the final Set
\* step of a call changes the store.
C2_FailedEmbeddingWritesNothing ==
    /\ \A n \in DOMAIN calls :
          (calls[n].pc = "embed" /\ calls'[n].pc = "done")
              => (calls'[n].err = ErrEmbedding /\ store' = store)
    /\ (store' # store) =>
          \E n \in DOMAIN calls :
              /\ calls[n].pc = "set" /\ calls'[n].pc = "done"
              /\ \A k \in DOMAIN store' \ {CallKey(n)} :
                    k \in DOMAIN store /\ store'[k] = store[k]

\* C2: no partial writes.
C2_NoPartialWrites == [][C2_FailedEmbeddingWritesNothing]_vars /\ []C2_WholeRecords

\* a call has failed on its embedding call, its key is absent, and another
\* call's record is stored
C2_Witness ==
    \E n \in DOMAIN calls :
        /\ Returned(n) /\ calls[n].err = ErrEmbedding
        /\ CallKey(n) \notin DOMAIN store
        /\ store # <<>>

\* two calls on the same document that overlap in time, both invoked while
\* the key was absent, with no third call on the key
RacingPair(m, n) ==
    /\ m < n /\ SameDoc(m, n)
    /\ m \notin calls[n].after
    /\ calls[m].after = {} /\ calls[n].after = {}
    /\ \A o \in DOMAIN calls \ {m, n} : ~SameKey(o, m)

RecordsOf(c, id) ==
    {k \in DOMAIN store : k = DocKey(c, id)}

\* C3: two concurrent AddDocument calls with the same collection and id on a
\* key that is absent, in every interleaving: once both have returned, and
\* unless both embedding calls failed (then C2 applies and nothing is
\* stored), the store holds exactly one record for the id, and its text,
\* embedding and metadata are those of one and the same call, one that
\* returned success.
C3_RaceKeepsOneWholeRecord ==
    \A m, n \in DOMAIN calls :
        (RacingPair(m, n) /\ Returned(m) /\ Returned(n)
            /\ (Succeeded(m) \/ Succeeded(n)))
        => /\ Cardinality(RecordsOf(calls[m].coll, calls[m].id)) = 1
           /\ \E w \in {m, n} :
                 /\ Succeeded(w)
                 /\ store[CallKey(m)].by = w
                 /\ Unmarshal(store[CallKey(m)].val).Text = calls[w].text
                 /\ Unmarshal(store[CallKey(m)].val).Embedding = calls[w].emb
                 /\ DOMAIN Unmarshal(store[CallKey(m)].val).Metadata = DOMAIN calls[w].meta
                 /\ store[CallKey(m)].val = Marshal(CallDoc(w))

\* both calls passed the existence check, both wrote and returned success,
\* with different texts and metadata, and the later writer's record is stored
C3_Witness ==
    \E m, n \in DOMAIN calls :
        /\ RacingPair(m, n) /\ Succeeded(m) /\ Succeeded(n)
        /\ calls[m].text # calls[n].text /\ calls[m].meta # calls[n].meta
        /\ store[CallKey(m)].by = m

BatchDone == batch.pc = "done"

\* C4, as claimed: when AddDocuments returns an error, every worker whose
\* AddDocument succeeded has its document stored, and no worker whose
\* AddDocument failed has written anything.
C4_AsClaimed ==
    (BatchDone /\ batch.err # NoErr) =>
        \A n \in BatchWorkers :
            /\ Succeeded(n) => Holds(CallKey(n), n)
            /\ ~Succeeded(n) => \A k \in DOMAIN store : store[k].by # n

\* C4, amended: when AddDocuments returns an error, every worker whose
\* AddDocument succeeded still has a record under its key: its own, or that of
\* another successful call on the same key that overlapped it and wrote after
\* it (a document id that occurs twice in the batch).  No worker whose
\* AddDocument failed has written anything.
C4_BatchPartialSuccess ==
    (BatchDone /\ batch.err # NoErr) =>
        \A n \in BatchWorkers :
            /\ Succeeded(n) =>
                  /\ CallKey(n) \in DOMAIN store
                  /\ \/ store[CallKey(n)].by = n /\ Holds(CallKey(n), n)
                     \/ LET w == store[CallKey(n)].by
                        IN  /\ w # n /\ Succeeded(w) /\ SameKey(w, n)
                            /\ n \notin calls[w].after
                            /\ Holds(CallKey(n), w)
            /\ ~Succeeded(n) =>
                  \A k \in DOMAIN store : store[k].by # n

\* a batch returned an error although one of its documents is stored, by its
\* own worker, while another of its workers failed
C4_Witness ==
    /\ BatchDone /\ batch.err # NoErr
    /\ \E n, f \in BatchWorkers :
          /\ Succeeded(n) /\ store[CallKey(n)].by = n
          /\ ~Succeeded(f)

\* C5: AddDocuments returns an error exactly when one of its AddDocument
\* calls failed, the error is one that such a call returned, and it returns
\* nil exactly when all succeeded, the empty batch included.
C5_BatchError ==
    BatchDone =>
        /\ (batch.err # NoErr) <=> (\E n \in BatchWorkers : ~Succeeded(n))
        /\ (batch.err # NoErr) => (\E n \in BatchWorkers : calls[n].err = batch.err)
        /\ (batch.size = 0) => (batch.err = NoErr)

\* a batch of two returned the error of its failed worker while the other
\* worker succeeded
C5_Witness ==
    /\ BatchDone /\ batch.size = 2 /\ batch.err = ErrEmbedding
    /\ \E n \in BatchWorkers : Succeeded(n)

----------------------------------------------------------------------------
(* Claims about Query: C6 to C8 under SpecQuery, C9 and C10 under SpecFilter *)

\* the step in which Query scans the store and returns
ScanStep == query.pc = "scan" /\ query'.pc = "done"

\* the document stored under a key, as Query reads it
DocAt(k) == Unmarshal(store[k].val)

\* lower-casing, written out again for the statements
Folded(s) == [i \in DOMAIN s |-> IF s[i] \in 65..90 THEN s[i] + 32 ELSE s[i]]

\* metadata m contains every key of filter f, lower-cased, with an equal value
Satisfies(m, f) ==
    \A key \in DOMAIN f : Folded(key) \in DOMAIN m /\ m[Folded(key)] = f[key]

\* the keys of the documents stored in collection c
KeysOf(c) == {k \in DOMAIN store : k = DocKey(c, DocAt(k).ID)}

\* the documents of c that satisfy f and have an embedding as long as v
Eligible(c, f, v) ==
    {k \in KeysOf(c) : Satisfies(DocAt(k).Metadata, f)
                        /\ Len(DocAt(k).Embedding) = Len(v)}

SimOf(k, v) == cosineSimilarity(v, DocAt(k).Embedding)
SameSim(x, y) == ~x.nan /\ ~y.nan /\ x.num * y.den = y.num * x.den

\* C6: when the scan returns a document with a non-empty id, it is a stored
\* document of the collection that satisfies the filter and has an embedding
\* of the query embedding's length; no other such document has a greater
\* similarity to the query embedding (a similarity that is NaN, from an
\* all-zero embedding, is never greater), and every other such document of
\* the same similarity comes later in key order, which is id order.  The scan
\* returns no error: documents of another embedding length are skipped.
C6_BestMatchStep ==
    LET c == query.coll
        v == query.vec
        d == query'.doc
        cand == Eligible(c, query.given, v)
        k == DocKey(c, d.ID)
    IN  ScanStep =>
            /\ query'.err = NoErr
            /\ (d.ID # <<>>) =>
                  /\ k \in cand
                  /\ DocAt(k) = d
                  /\ \A o \in cand \ {k} :
                        /\ ~Greater(SimOf(o, v), SimOf(k, v))
                        /\ SameSim(SimOf(o, v), SimOf(k, v))
                              => (LexLess(k, o) /\ LexLess(d.ID, DocAt(o).ID))

C7_NoMatchStep ==
    (ScanStep /\ \A k \in KeysOf(query.coll) : ~Satisfies(DocAt(k).Metadata, query.given))
        => (query'.doc = ZeroDoc /\ query'.doc.ID = <<>> /\ query'.err = NoErr)

C7_NoMatch == [][C7_NoMatchStep]_vars

\* Query scanned a document, with a filter, and returned the zero-value
\* Document and nil: the document does not satisfy the filter
C7_Witness ==
    /\ query.pc = "done" /\ query.err = NoErr /\ query.doc = ZeroDoc
    /\ query.vec = <<1, 0>> /\ query.given # NoMeta
    /\ \E k \in DOMAIN store :
          /\ query.scanned = <<k>>
          /\ DocAt(k).Embedding = <<1, 0>>
          /\ ~Satisfies(DocAt(k).Metadata, query.given)

\* C8: a Query whose embedding call fails returns that error and the
\* zero-value Document, and has not scanned the store: it has read no key and
\* has not touched the filter.
C8_EmbedFailStep ==
    (query.pc = "embed" /\ query'.pc = "done") =>
        /\ query'.err = ErrService
        /\ query'.doc = ZeroDoc
        /\ query'.scanned = <<>>
        /\ query'.filter = query.given

C8_EmbedFailInv ==
    (query.pc = "done" /\ query.err # NoErr) =>
        (query.err = ErrService /\ query.doc = ZeroDoc /\ query.scanned = <<>>)

C8_EmbedFail == [][C8_EmbedFailStep]_vars /\ []C8_EmbedFailInv

\* Query failed on its embedding call while its collection held a document
C8_Witness ==
    /\ query.pc = "done" /\ query.err = ErrService
    /\ KeysOf(query.coll) # {}

\* C9, as claimed: a document is a candidate exactly when, for every key and
\* value of the filter, its metadata contains the lower-cased key with an
\* equal value; so whatever the filter's values, the scan returns no document
\* that lacks one of the filter's keys, and returns one whenever some document
\* satisfies the filter.
C9_ClaimStep ==
    LET sat == {k \in KeysOf(query.coll) : Satisfies(DocAt(k).Metadata, query.given)}
    IN  ScanStep =>
            /\ (query'.doc.ID # <<>>) => DocKey(query.coll, query'.doc.ID) \in sat
            /\ (sat # {}) => (query'.doc.ID # <<>>)
            /\ (query.given = NoMeta) => (sat = KeysOf(query.coll))

C9_MatchesAsClaimed == [][C9_ClaimStep]_vars

\* the filter with key k replaced by its other letter case
OtherCase(k) ==
    [i \in DOMAIN k |-> IF k[i] \in 65..90 THEN k[i] + 32
                        ELSE IF k[i] \in 97..122 THEN k[i] - 32 ELSE k[i]]
Recased(f, k) ==
    [x \in (DOMAIN f \ {k}) \cup {OtherCase(k)} |-> IF x = OtherCase(k) THEN f[k] ELSE f[x]]

\* C10: the scan gives the same document for the filter as given and for the
\* filter with any one key replaced by its other letter case (where that
\* variant is not a key of the filter already); and the returned document
\* holds, under each lower-cased filter key, exactly the filter's value.
C10_CaseStep ==
    ScanStep =>
        /\ \A k \in DOMAIN query.given :
              (OtherCase(k) \notin DOMAIN query.given) =>
                  \A nf \in Normalise(Recased(query.given, k)) :
                      BestMatch(store, query.coll, query.vec, nf) = query'.doc
        /\ (query'.doc.ID # <<>>) =>
              \A k \in DOMAIN query.given :
                  (OtherCase(k) \notin DOMAIN query.given) =>
                      Lookup(query'.doc.Metadata, Folded(k)) = query.given[k]

----------------------------------------------------------------------------
(* Claims about keys and visibility: C11, C12 and C18 under SpecKeys *)

\* key k is one of the keys the scan read
Scanned(q, k) == \E i \in DOMAIN q.scanned : q.scanned[i] = k

\* C11 (Query part), as claimed: the scan of a Query reads the record of
\* every AddDocument on its collection that had returned success when the
\* Query was called, whatever the id, and with an empty filter and a query
\* embedding of the record's length the record is among the candidates.
C11_QueryStep ==
    ScanStep =>
        \A m \in query.after :
            /\ Scanned(query', CallKey(m))
            /\ (query.given = NoMeta /\ Len(query.vec) = Len(calls[m].emb))
                  => CallKey(m) \in {k \in DOMAIN store :
                                        /\ Scanned(query', k)
                                        /\ MatchesFilter(DocAt(k).Metadata, query.given)
                                        /\ Len(DocAt(k).Embedding) = Len(query.vec)}

\* C11 (existence-check part): a call of AddDocument invoked after a
\* successful one on the same collection and id finds the record.
C11_CheckInv ==
    \A n \in DOMAIN calls :
        (Returned(n) /\ calls[n].after # {}) => calls[n].err = ErrExists

\* C11, as claimed: read-your-writes for every id string.
C11_ReadYourWrites == [][C11_QueryStep]_vars /\ []C11_CheckInv

\* the step of a CreateCollection call (a call that repeats the last call's
\* name and result changes nothing at all)
CreateStep == create' # create

\* some stored key lies in [name + ":", name + ";")
KeyInNameRange(name) ==
    \E k \in DOMAIN store :
        ~LexLess(k, name \o <<58>>) /\ LexLess(k, name \o <<59>>)

\* C12, as claimed: CreateCollection(name) fails with "collection already
\* exists" exactly when a stored key lies in [name + ":", name + ";"), and it
\* leaves the store as it was.
C12_CreateStep ==
    CreateStep =>
        /\ create'.err \in {NoErr, ErrCollExists}
        /\ (create'.err = ErrCollExists) <=> KeyInNameRange(create'.name)
        /\ store' = store

C12_CreateCollection == [][C12_CreateStep]_vars

\* the collection of the AddDocument call that wrote the record under key k
WriterColl(k) == calls[store[k].by].coll

\* C18, as claimed: a record written by AddDocument(c1, ...) is never read
\* by the scan of Query(c2, ...), never makes AddDocument(c2, id, ...) fail
\* as a duplicate and never makes CreateCollection(c2) fail, for c1 # c2; and
\* two AddDocument calls have the same key only if they have the same
\* collection and the same id.
C18_Step ==
    /\ ScanStep =>
          \A i \in DOMAIN query'.scanned : WriterColl(query'.scanned[i]) = query.coll
    /\ \A n \in DOMAIN calls :
          (calls[n].pc = "get" /\ calls'[n].err = ErrExists)
              => WriterColl(CallKey(n)) = calls[n].coll
    /\ (CreateStep /\ create'.err = ErrCollExists)
          => \E k \in DOMAIN store : WriterColl(k) = create'.name

C18_KeysInv ==
    \A m, n \in DOMAIN calls : SameKey(m, n) => SameDoc(m, n)

C18_CollectionIsolation == [][C18_Step]_vars /\ []C18_KeysInv

----------------------------------------------------------------------------
(* Claims about stored values: C13 and C19 under SpecValues *)

\* C13 (state part), as claimed: every stored record, read back, equals in
\* all four fields the document its AddDocument call wrote, each metadata
\* value with its dynamic type.
C13_ReadBackEqual ==
    \A k \in DOMAIN store : DocAt(k) = CallDoc(store[k].by)

\* C13 (step part), as claimed: a scan whose filter is the metadata some
\* scanned record was written with finds that record matching.
C13_FilterStep ==
    ScanStep =>
        \A i \in DOMAIN query'.scanned :
            LET k == query'.scanned[i]
            IN  (query.given = calls[store[k].by].meta)
                    => \E nf \in Normalise(query.given) :
                          MatchesFilter(DocAt(k).Metadata, nf)

C13_RoundTrip == []C13_ReadBackEqual /\ [][C13_FilterStep]_vars

\* C19, as claimed: when the collection holds a document that satisfies the
\* filter and has an embedding of the query embedding's non-zero length, the
\* scan returns a document with a non-empty id.
C19_FindsStep ==
    (ScanStep /\ Len(query.vec) > 0 /\ Eligible(query.coll, query.given, query.vec) # {})
        => query'.doc.ID # <<>>

C19_FindsEligible == [][C19_FindsStep]_vars

----------------------------------------------------------------------------
(* Claims about concurrency: C14 under Spec, C15 under SpecBatchLive *)

\* C14 (step part): the existence check and the write are separate steps, and
\* the write of a call that passed the check is unconditional: whatever the
\* key holds by then, the call returns success and the key holds that call's
\* record, so of two writers the later one's record stays.
C14_WriteStep ==
    \A n \in DOMAIN calls :
        (calls[n].pc = "set" /\ calls'[n].pc = "done")
            => /\ calls'[n].err = NoErr
               /\ CallKey(n) \in DOMAIN store'
               /\ store'[CallKey(n)].val = Marshal(CallDoc(n))
               /\ store'[CallKey(n)].by = n

\* C14 (state part): a key is written only by calls that passed the check,
\* and a call that is past the check while the key is already held overlapped
\* the call that holds it.
C14_Overlap ==
    \A n \in DOMAIN calls :
        (calls[n].pc \in {"embed", "set"} /\ CallKey(n) \in DOMAIN store)
            => /\ store[CallKey(n)].by # n
               /\ store[CallKey(n)].by \notin calls[n].after
               /\ Succeeded(store[CallKey(n)].by)

C14_LastWriterWins == [][C14_WriteStep]_vars /\ []C14_Overlap

\* two calls on one collection and id with different texts both passed the
\* existence check, both wrote and both returned success; the record of the
\* later writer replaced the earlier writer's
C14_Witness ==
    \E m, n \in DOMAIN calls :
        /\ m # n /\ SameDoc(m, n) /\ Succeeded(m) /\ Succeeded(n)
        /\ m \notin calls[n].after /\ n \notin calls[m].after
        /\ calls[m].text # calls[n].text
        /\ store[CallKey(n)].by = n
        /\ Holds(CallKey(n), n) /\ ~Holds(CallKey(m), m)

\* C15 (step part): AddDocuments starts one AddDocument call per input
\* document, in input order, and returns only in a state in which every one
\* of them has returned; a worker whose embedding call has not returned
\* keeps AddDocuments from returning.
C15_Step ==
    /\ (batch.pc = "idle" /\ batch'.pc = "wait") =>
          /\ Len(calls') = Len(calls) + batch'.size
          /\ batch'.first = Len(calls) + 1
          /\ batch'.cap = batch'.size
          /\ \A n \in batch'.first .. Len(calls') :
                calls'[n].batch /\ calls'[n].pc = "get"
    /\ (batch.pc = "wait" /\ batch'.pc = "done") =>
          \A n \in BatchWorkers : Returned(n)

\* C15 (state part): the error channel never holds more than its capacity,
\* and it has room for the error of every worker that has not returned yet,
\* so no send blocks.
C15_Room ==
    (batch.pc # "idle") =>
        Len(batch.errChan) + Cardinality({n \in BatchWorkers : Active(n)}) <= batch.cap

\* C15: with every embedding call and store operation returning, AddDocuments
\* returns.
C15_BatchTerminates ==
    /\ [][C15_Step]_vars
    /\ []C15_Room
    /\ (batch.pc = "wait") ~> (batch.pc = "done")

\* AddDocuments returned after every one of its workers, two or more, failed:
\* the error channel was filled to its capacity
C15_Witness ==
    /\ BatchDone /\ batch.size >= 2
    /\ Len(batch.errChan) = batch.cap
    /\ \A n \in BatchWorkers : Returned(n) /\ ~Succeeded(n)

----------------------------------------------------------------------------
(* Claims about the scan: C16 and C17 under SpecScan *)

\* C16: a step of a Query call leaves the store as it was; and when a Query
\* call is repeated with the same collection, the same filter map and the
\* same query embedding and scans the store its predecessor scanned, it reads
\* the same keys in the same order and returns the same document and error.
C16_Step ==
    /\ (query' # query) => (store' = store)
    /\ (ScanStep /\ query.prev.set /\ query.vec = query.prev.vec
            /\ store = query.prev.store)
          => /\ query'.scanned = query.prev.scanned
             /\ query'.doc = query.prev.doc
             /\ query'.err = query.prev.err

BadAt(c) ==
    {i \in DOMAIN ScanKeys(store, c) : store[ScanKeys(store, c)[i]].val.json # "object"}

\* C17: when a record in the scanned range does not deserialize, the scan
\* returns the deserialization error, the first such record is the last one
\* it read, and the document it returns with the error is not one that
\* follows that record in key order; with no such record it returns no error.
C17_Step ==
    LET keys == ScanKeys(store, query.coll)
        bad == BadAt(query.coll)
        first == CHOOSE i \in bad : \A j \in bad : i <= j
    IN  ScanStep =>
            IF bad = {} THEN query'.err = NoErr
            ELSE /\ query'.err = ErrCorrupt
                 /\ query'.scanned = SubSeq(keys, 1, first)
                 /\ \A j \in first .. Len(keys) :
                       ~Scanned(query', keys[j]) \/ j = first
                 /\ (query'.doc.ID # <<>>) =>
                       \E j \in 1 .. (first - 1) :
                           /\ keys[j] = DocKey(query.coll, query'.doc.ID)
                           /\ query'.doc = DocAt(keys[j])

C17_CorruptAborts == [][C17_Step]_vars

\* Query returned the deserialization error from the first of two records,
\* and with it no document, although the second record is whole and its
\* embedding equals the query embedding
C17_Witness ==
    /\ query.pc = "done" /\ query.err = ErrCorrupt
    /\ query.given = NoMeta
    /\ query.snap = store
    /\ Len(query.scanned) = 1 /\ query.doc = ZeroDoc
    /\ \E k \in DOMAIN store :
          /\ InScan(k, query.coll) /\ LexLess(query.scanned[1], k)
          /\ store[k].val.json = "object"
          /\ DocAt(k).Embedding = query.vec

----------------------------------------------------------------------------
(* Claims about the in-memory variant: C20 under SpecMem *)

\* C20, as claimed: after every call, every collection has as many documents
\* as vectors, and no Query has read documents[i] out of range.
C20_Aligned ==
    /\ \A c \in DOMAIN mem.colls :
          Len(mem.colls[c].documents) = Len(mem.colls[c].vectors)
    /\ ~mem.panic

\* C21, as claimed: after AddDocuments returns nil, the collection has as
\* many vectors as documents and vectors[i] is the embedding of
\* documents[i].Text at every index i.
C21_Paired ==
    (mem.op = "AddDocuments" /\ mem.err = NoErr) =>
        LET coll == mem.colls[mem.coll]
        IN  /\ Len(coll.vectors) = Len(coll.documents)
            /\ \A i \in DOMAIN coll.documents :
                  coll.vectors[i] = EmbeddingOf(coll.documents[i].Text)

----------------------------------------------------------------------------
(* Claims about the caller's arguments: C22 under SpecFilter *)

\* C22, as claimed: when Query has returned, the caller's metadataFilter map
\* has the keys and values it was passed with.
C22_FilterUnchanged ==
    (query.pc = "done") => (query.filter = query.given)

====
